---- MODULE Spec2Model ----
(***************************************************************************)
(* A model of the load-generation engine of hey: requester.Work (Init,     *)
(* Run, Stop, Finish, runWorkers, runWorker, makeRequest) and the wiring   *)
(* of it in main / requestFunc / userKill.                                 *)
(*                                                                         *)
(* Two specifications share the actions of Work:                           *)
(*   Spec     - the exported API of Work driven by an arbitrary client:    *)
(*              any Work{N, C, QPS}, Init() and Stop() called at any time  *)
(*              from other goroutines, Run() called once;                  *)
(*   SpecMain - the command as wired in hey.go: flag validation, then      *)
(*              Init, the interrupt handler, the duration timer, Run.      *)
(***************************************************************************)
EXTENDS Integers, Sequences, FiniteSets, TLC

\* ---------------------------------------------------------------- bounds
\* Largest concurrency level C tried (the smallest is -1).
MaxC == 2
\* Largest request count N tried.
MaxN == 3
\* Number of Init() calls a client makes besides the one inside Run().
MaxInitCalls == 1
\* Records of buffer per worker: stands for the literal 1000 of
\* make(chan *result, min(b.C*1000, maxResult)), scaled so that a run of
\* MaxN requests fills the channel.
ResultsPerWorker == 1
\* Hard cap of the result channel: stands for maxResult = 1000000, scaled
\* so that C*ResultsPerWorker exceeds it for C = MaxC.
maxResult == 1
\* math.MaxInt32 at reduced width: the request count main substitutes
\* when a duration is given.
MaxInt32 == 3

\* The number of requests the network fails in one run, at most.
MaxFailures == 1

\* The last reading of the clock.
MaxClock == 3

\* The number of requests of a run with one worker that is long enough for
\* an iteration count of two digits.
LongRun == 11

\* QPS values tried: no limit, one request per second, and a rate above
\* 1e6 whose tick period time.Duration(1e6/QPS) truncates to 0.
QPSValues == {0, 1, 2000000}

Workers == 0 .. (MaxC - 1)
\* The goroutines that call Stop(): the interrupt handler of userKill and
\* the duration timer of requestFunc (for a client of the package: two
\* goroutines of the client).
Stoppers == {"interrupt", "timer"}

\* The workers whose requests the network can fail. The code treats all
\* workers alike, so one worker with failures next to workers without shows
\* every pattern of failures of a worker.
FailingWorkers == {0}

VARIABLES
  N,             \* Work.N
  C,             \* Work.C
  QPS,           \* Work.QPS
  dur,           \* main: dur > 0
  certFails,     \* Certfile and Keyfile are set and tls.LoadX509KeyPair fails
  RandMark,      \* Work.RandMark
  ctxCopiesURL,  \* the net/http of the build copies the URL in Request.WithContext
  tmpl0,         \* Work.Request and Work.RequestBody as the caller built them
  tmpl,          \* Work.Request and Work.RequestBody as they are now
  wreq,          \* per worker: the request of its current iteration
  tagLog,        \* the tags generated so far, with the iteration of each
  DisableRedirects, \* Work.DisableRedirects
  clientWriters, \* history: the workers that have assigned a field of the shared http.Client
  clk,           \* the clock now() reads
  tpc,           \* the traced makeRequest call: its position
  ts,            \* makeRequest: s
  tstart,        \* makeRequest: dnsStart, connStart, reqStart, delayStart, resStart
  tdur,          \* makeRequest: dnsDuration, connDuration, reqDuration, delayDuration
  terr,          \* makeRequest: err of c.Do
  trec,          \* the result the traced call sends
  pushed,        \* history: the records sent to b.results, in the order of the sends
  total,         \* Finish: what total covers ("unset" before it is computed)
  mpc,           \* position of main / requestFunc ("lib": no main, a client)
  initDone,      \* Work.initOnce has run
  initCalls,     \* Init() calls made by the client so far
  alloc,         \* Work.results and Work.stopCh are non-nil
  resultsCap,    \* cap(Work.results)
  stopCap,       \* cap(Work.stopCh)
  results,       \* Work.results: the buffered records, oldest first
  resultsClosed, \* Work.results is closed
  stopCh,        \* Work.stopCh: number of buffered tokens
  panicked,      \* the process has panicked
  runpc,         \* position of the goroutine in Run / runWorkers / Finish
  gort,          \* loop variable of runWorkers
  wg,            \* counter of the WaitGroup of runWorkers
  wpc,           \* position of each worker goroutine
  wi,            \* loop variable i of each runWorker
  werr,          \* err of the request each worker has in flight
  wtook,         \* tokens each worker has received from stopCh
  issued,        \* makeRequest calls entered so far
  lateIssued,    \* per worker: makeRequest calls entered after a Stop() returned
  lateChecks,    \* per worker: stop checks that took default after a Stop() returned
  earlyStop,     \* a Stop() returned before any worker began its first iteration
  rpc,           \* position of the reporter goroutine
  consumed,      \* records the reporter has received, in order
  rdone,         \* report.done holds a value
  summary,       \* report.finalize has been called
  spc,           \* position of each Stop() caller
  ssent          \* tokens each Stop() caller has sent

cfgVars == <<N, C, QPS, dur, certFails, DisableRedirects, RandMark, ctxCopiesURL, tmpl0>>
reqVars == <<tmpl, wreq, tagLog>>
traceVars == <<clk, tpc, ts, tstart, tdur, terr, trec>>
chanVars == <<initDone, alloc, resultsCap, stopCap, results, resultsClosed, stopCh>>
runVars == <<runpc, gort, wg>>
workerVars == <<wpc, wi, werr, wtook, issued, lateIssued, lateChecks>>
reportVars == <<rpc, consumed, rdone, summary>>
stopVars == <<spc, ssent, earlyStop>>
vars == <<cfgVars, reqVars, pushed, total, clientWriters, traceVars, mpc, initCalls, chanVars, panicked, runVars, workerVars,
          reportVars, stopVars>>

\* ------------------------------------------------------------- helpers
min(a, b) == IF a < b THEN a ELSE b

\* Go's integer division truncates toward zero.
GoDiv(a, b) ==
  IF a >= 0 THEN a \div b ELSE -((-a) \div b)

\* Mutant of PerWorker: the remainder is rounded up instead of dropped.
PerWorkerCeil == GoDiv(N + C - 1, C)

\* The iterations runWorkers hands to every worker: b.N/b.C.
PerWorker == GoDiv(N, C)

\* time.Duration(1e6/QPS) in microseconds; time.Tick returns a nil channel
\* for a period <= 0.
TickPeriod == 1000000 \div QPS
ThrottleIsNil == TickPeriod <= 0

\* Some Stop() call has returned.
StopReturned == \E k \in Stoppers : spc[k] = "returned"

\* Worker g has performed the stop check of its first iteration.
Begun(g) == ~(wpc[g] \in {"none", "spawned"} \/ (wpc[g] = "loop" /\ wi[g] = 0))


\* ------------------------------------------------------------ requests
\* Strings are sequences of one-character strings.
\* The marker RandMark replaces: "HEY".
Marker == <<"H", "E", "Y">>

DigitChars == <<"0", "1", "2", "3", "4", "5", "6", "7", "8", "9">>

\* strconv.Itoa: the decimal digits of n, with a minus sign when n < 0.
RECURSIVE Itoa(_)
Itoa(n) ==
  IF n < 0 THEN <<"-">> \o Itoa(-n)
  ELSE IF n < 10 THEN <<DigitChars[n + 1]>>
  ELSE Itoa(n \div 10) \o <<DigitChars[(n % 10) + 1]>>

\* Mutant of Tag: the worker index is left out.
TagNoWorker(g, i) == Itoa(i)

\* The tag of iteration n of worker gort:
\* strconv.Itoa(gort) + "-" + strconv.Itoa(n).
Tag(g, i) == Itoa(g) \o <<"-">> \o Itoa(i)

\* strings.Replace(s, old, new, -1) for a non-empty old: the occurrences
\* of old are replaced from left to right, without overlap.
RECURSIVE Replace(_, _, _)
Replace(s, old, new) ==
  IF Len(s) < Len(old) THEN s
  ELSE IF SubSeq(s, 1, Len(old)) = old
       THEN new \o Replace(SubSeq(s, Len(old) + 1, Len(s)), old, new)
       ELSE <<Head(s)>> \o Replace(Tail(s), old, new)

\* A request template without the marker.
PlainTemplate ==
  [host |-> <<"a">>, path |-> <<>>, header |-> <<"a">>, body |-> <<>>]

\* A request template with the marker in the URL host, the URL path, the
\* header value and the body.
MarkedTemplate ==
  [host |-> <<"H", "E", "Y", "a">>,
   path |-> <<"H", "E", "H", "E", "Y">>,
   header |-> <<"a", "H", "E", "Y", "H", "E", "Y">>,
   body |-> <<"H", "E", "Y">>]

\* A request template with the marker in the path and the body only.
MixedTemplate ==
  [host |-> <<"a">>, path |-> <<"H", "E", "Y">>, header |-> <<"a">>,
   body |-> <<"a", "H", "E", "Y">>]

Templates == {PlainTemplate, MarkedTemplate, MixedTemplate}

\* No request built yet.
NoRequest == [host |-> <<>>, path |-> <<>>, header |-> <<>>, body |-> <<>>]

\* The locals of a makeRequest call before its first statement: Go zeroes
\* the declared durations.
ZeroTimes == [dns |-> 0, conn |-> 0, req |-> 0, delay |-> 0, res |-> 0]

\* No result sent yet.
NoResult == [sent |-> FALSE]

\* The traced makeRequest call has not begun.
TraceInit ==
  /\ clk = 0
  /\ tpc = "idle"
  /\ ts = 0
  /\ tstart = ZeroTimes
  /\ tdur = ZeroTimes
  /\ terr = FALSE
  /\ trec = NoResult

\* --------------------------------------------------------------- Init
\* A client of the package: any Work, nothing called yet.
Init ==
  /\ N \in 0 .. MaxN
  /\ C \in -1 .. MaxC
  /\ QPS \in QPSValues
  /\ dur = FALSE
  /\ certFails \in BOOLEAN
  /\ DisableRedirects = FALSE
  /\ RandMark = FALSE
  /\ ctxCopiesURL = FALSE
  /\ tmpl0 = PlainTemplate
  /\ tmpl = tmpl0
  /\ wreq = [g \in Workers |-> NoRequest]
  /\ tagLog = {}
  /\ pushed = <<>>
  /\ TraceInit
  /\ clientWriters = {}
  /\ total = "unset"
  /\ mpc = "lib"
  /\ initDone = FALSE
  /\ initCalls = 0
  /\ alloc = FALSE
  /\ resultsCap = 0
  /\ stopCap = 0
  /\ results = <<>>
  /\ resultsClosed = FALSE
  /\ stopCh = 0
  /\ panicked = FALSE
  /\ runpc = "idle"
  /\ gort = 0
  /\ wg = 0
  /\ wpc = [g \in Workers |-> "none"]
  /\ wi = [g \in Workers |-> 0]
  /\ werr = [g \in Workers |-> FALSE]
  /\ wtook = [g \in Workers |-> 0]
  /\ issued = 0
  /\ lateIssued = [g \in Workers |-> 0]
  /\ lateChecks = [g \in Workers |-> 0]
  /\ earlyStop = FALSE
  /\ rpc = "none"
  /\ consumed = <<>>
  /\ rdone = FALSE
  /\ summary = FALSE
  /\ spc = [k \in Stoppers |-> "idle"]
  /\ ssent = [k \in Stoppers |-> 0]

\* The command: the flags -n, -c, -q, -z as given, main about to validate.
InitMain ==
  /\ N \in 0 .. MaxN
  /\ C \in -1 .. MaxC
  /\ QPS \in QPSValues
  /\ dur \in BOOLEAN
  /\ certFails \in BOOLEAN
  /\ DisableRedirects = FALSE
  /\ RandMark = FALSE
  /\ ctxCopiesURL = FALSE
  /\ tmpl0 = PlainTemplate
  /\ tmpl = tmpl0
  /\ wreq = [g \in Workers |-> NoRequest]
  /\ tagLog = {}
  /\ pushed = <<>>
  /\ TraceInit
  /\ clientWriters = {}
  /\ total = "unset"
  /\ mpc = "validate"
  /\ initDone = FALSE
  /\ initCalls = 0
  /\ alloc = FALSE
  /\ resultsCap = 0
  /\ stopCap = 0
  /\ results = <<>>
  /\ resultsClosed = FALSE
  /\ stopCh = 0
  /\ panicked = FALSE
  /\ runpc = "off"
  /\ gort = 0
  /\ wg = 0
  /\ wpc = [g \in Workers |-> "none"]
  /\ wi = [g \in Workers |-> 0]
  /\ werr = [g \in Workers |-> FALSE]
  /\ wtook = [g \in Workers |-> 0]
  /\ issued = 0
  /\ lateIssued = [g \in Workers |-> 0]
  /\ lateChecks = [g \in Workers |-> 0]
  /\ earlyStop = FALSE
  /\ rpc = "none"
  /\ consumed = <<>>
  /\ rdone = FALSE
  /\ summary = FALSE
  /\ spc = [k \in Stoppers |-> "off"]
  /\ ssent = [k \in Stoppers |-> 0]

\* ---------------------------------------------------------- Work.Init
\* The function initOnce runs: the two make(chan ...) calls. make panics
\* on a negative size.
\* Mutant of ResultsCapacity: the hard cap is forgotten.
ResultsCapacityNoCap == C * ResultsPerWorker

\* Size of the result channel: min(b.C*1000, maxResult).
ResultsCapacity == min(C * ResultsPerWorker, maxResult)

\* Mutant of StopCapacity: one slot short.
StopCapacityShort == C - 1

\* Size of the stop channel: b.C.
StopCapacity == C

AllocChannels ==
  IF ResultsCapacity < 0 \/ StopCapacity < 0
  THEN /\ panicked' = TRUE
       /\ UNCHANGED <<alloc, resultsCap, stopCap, results, resultsClosed, stopCh>>
  ELSE /\ alloc' = TRUE
       /\ resultsCap' = ResultsCapacity
       /\ stopCap' = StopCapacity
       /\ results' = <<>>
       /\ resultsClosed' = FALSE
       /\ stopCh' = 0
       /\ UNCHANGED panicked

\* Mutant of WorkInit: the channels are made on every call.
WorkInitNoOnce ==
  /\ initDone' = TRUE
  /\ AllocChannels

\* Init(): b.initOnce.Do(...). sync.Once marks itself done also when the
\* function panics.
WorkInit ==
  IF initDone
  THEN UNCHANGED <<initDone, alloc, resultsCap, stopCap, results, resultsClosed,
                   stopCh, panicked>>
  ELSE /\ initDone' = TRUE
       /\ AllocChannels

\* A client's call of Init(), at any time.
InitCall ==
  /\ ~panicked
  /\ mpc = "lib"
  /\ initCalls < MaxInitCalls
  /\ initCalls' = initCalls + 1
  /\ WorkInit
  /\ UNCHANGED <<cfgVars, traceVars, clientWriters, pushed, total, reqVars, mpc, runVars, workerVars, reportVars, stopVars>>

\* ------------------------------------------------- main / requestFunc
\* main: num, conc from the flags; with a duration num becomes
\* math.MaxInt32; usageAndExit on a bad -n or -c.
MainValidate ==
  /\ ~panicked
  /\ mpc = "validate"
  /\ IF dur
     THEN /\ N' = MaxInt32
          /\ mpc' = IF C <= 0 THEN "exit" ELSE "init"
     ELSE /\ N' = N
          /\ mpc' = IF N <= 0 \/ C <= 0 \/ N < C THEN "exit" ELSE "init"
  /\ UNCHANGED <<pushed, total, clientWriters, traceVars, C, QPS, dur, certFails, DisableRedirects, RandMark, ctxCopiesURL, tmpl0, reqVars,
                 initCalls, chanVars, panicked, runVars, workerVars,
                 reportVars, stopVars>>

\* requestFunc: w.Init()
MainInit ==
  /\ ~panicked
  /\ mpc = "init"
  /\ mpc' = "userKill"
  /\ WorkInit
  /\ UNCHANGED <<cfgVars, traceVars, clientWriters, pushed, total, reqVars, initCalls, runVars, workerVars, reportVars, stopVars>>

\* userKill(w): a goroutine that waits for one interrupt and calls Stop().
MainUserKill ==
  /\ ~panicked
  /\ mpc = "userKill"
  /\ mpc' = "timer"
  /\ spc' = [spc EXCEPT !["interrupt"] = "idle"]
  /\ UNCHANGED <<cfgVars, traceVars, clientWriters, pushed, total, reqVars, initCalls, chanVars, panicked, runVars, workerVars,
                 reportVars, ssent, earlyStop>>

\* requestFunc: if dur > 0, a goroutine that sleeps dur and calls Stop().
MainTimer ==
  /\ ~panicked
  /\ mpc = "timer"
  /\ mpc' = "run"
  /\ spc' = IF dur THEN [spc EXCEPT !["timer"] = "idle"] ELSE spc
  /\ UNCHANGED <<cfgVars, traceVars, clientWriters, pushed, total, reqVars, initCalls, chanVars, panicked, runVars, workerVars,
                 reportVars, ssent, earlyStop>>

\* requestFunc: w.Run() is called.
MainRun ==
  /\ ~panicked
  /\ mpc = "run"
  /\ mpc' = "running"
  /\ runpc' = "idle"
  /\ UNCHANGED <<cfgVars, traceVars, clientWriters, pushed, total, reqVars, initCalls, chanVars, panicked, gort, wg, workerVars,
                 reportVars, stopVars>>


\* ----------------------------------------------------- Work.Run, Finish
\* Run: b.Init()
RunInit ==
  /\ ~panicked
  /\ runpc = "idle"
  /\ runpc' = "report"
  /\ WorkInit
  /\ UNCHANGED <<cfgVars, traceVars, clientWriters, pushed, total, reqVars, mpc, initCalls, gort, wg, workerVars, reportVars, stopVars>>

\* Run: b.start = now(); b.report = newReport(...); go runReporter(b.report)
RunReporter ==
  /\ ~panicked
  /\ runpc = "report"
  /\ runpc' = "transport"
  /\ rpc' = "running"
  /\ UNCHANGED <<cfgVars, traceVars, clientWriters, pushed, total, reqVars, mpc, initCalls, chanVars, panicked, gort, wg, workerVars,
                 consumed, rdone, summary, stopVars>>

\* runWorkers: the transport and the client are built, then wg.Add(b.C).
\* With a certificate and key configured, a failed tls.LoadX509KeyPair is
\* printed and certs stays the zero tls.Certificate; the next statement
\* indexes certs.Certificate[0], which panics on the empty slice.
RunTransport ==
  /\ ~panicked
  /\ runpc = "transport"
  /\ IF certFails
     THEN /\ panicked' = TRUE
          /\ UNCHANGED <<runpc, wg, gort>>
     ELSE /\ runpc' = "spawn"
          /\ wg' = C
          /\ gort' = 0
          /\ UNCHANGED panicked
  /\ UNCHANGED <<cfgVars, traceVars, clientWriters, pushed, total, reqVars, mpc, initCalls, chanVars, workerVars, reportVars,
                 stopVars>>

\* The number of worker goroutines runWorkers starts.
WorkerCount == C

\* runWorkers: one turn of for gort := 0; gort < b.C; gort++ { go func ... }
RunSpawn ==
  /\ ~panicked
  /\ runpc = "spawn"
  /\ gort < WorkerCount
  /\ wpc' = [wpc EXCEPT ![gort] = "spawned"]
  /\ gort' = gort + 1
  /\ UNCHANGED <<cfgVars, traceVars, clientWriters, pushed, total, reqVars, mpc, initCalls, chanVars, panicked, runpc, wg, wi, werr, wtook,
                 issued, lateIssued, lateChecks, reportVars, stopVars>>

\* Mutant of WaitPasses: Run does not wait for the workers.
WaitPassesEarly == TRUE

\* wg.Wait() lets Run go on to Finish.
WaitPasses == wg = 0

\* runWorkers: the loop is over and wg.Wait() returns; Run calls Finish.
RunWait ==
  /\ ~panicked
  /\ runpc = "spawn"
  /\ gort >= WorkerCount
  /\ WaitPasses
  /\ runpc' = "close"
  /\ UNCHANGED <<cfgVars, traceVars, clientWriters, pushed, total, reqVars, mpc, initCalls, chanVars, panicked, gort, wg, workerVars,
                 reportVars, stopVars>>

\* Finish: close(b.results)
FinishClose ==
  /\ ~panicked
  /\ runpc = "close"
  /\ runpc' = "total"
  /\ IF resultsClosed
     THEN panicked' = TRUE /\ UNCHANGED resultsClosed
     ELSE resultsClosed' = TRUE /\ UNCHANGED panicked
  /\ UNCHANGED <<cfgVars, traceVars, clientWriters, pushed, total, reqVars, mpc, initCalls, initDone, alloc, resultsCap, stopCap, results,
                 stopCh, gort, wg, workerVars, reportVars, stopVars>>

\* What the clock reading of Finish covers: the run with the aggregator's
\* draining when the aggregator has completed, the run without it otherwise.
TotalMeasured == IF rpc = "exited" THEN "drained" ELSE "draining"

\* Finish: total := now() - b.start
FinishTotal ==
  /\ ~panicked
  /\ runpc = "total"
  /\ runpc' = "waitdone"
  /\ total' = TotalMeasured
  /\ UNCHANGED <<cfgVars, traceVars, clientWriters, pushed, reqVars, mpc, initCalls, chanVars, panicked, gort, wg, workerVars,
                 reportVars, stopVars>>

\* Mutant of ReportDone: Finish does not wait for the aggregator.
ReportDoneAlways == TRUE

\* <-b.report.done can receive: the aggregator has signalled completion.
ReportDone == rdone

\* Finish: <-b.report.done
FinishWaitDone ==
  /\ ~panicked
  /\ runpc = "waitdone"
  /\ ReportDone
  /\ rdone' = FALSE
  /\ runpc' = "finalize"
  /\ UNCHANGED <<cfgVars, traceVars, clientWriters, pushed, total, reqVars, mpc, initCalls, chanVars, panicked, gort, wg, workerVars,
                 rpc, consumed, summary, stopVars>>

\* Finish: b.report.finalize(total); Finish and Run return.
FinishFinalize ==
  /\ ~panicked
  /\ runpc = "finalize"
  /\ summary' = TRUE
  /\ runpc' = "returned"
  /\ UNCHANGED <<cfgVars, traceVars, clientWriters, pushed, total, reqVars, mpc, initCalls, chanVars, panicked, gort, wg, workerVars,
                 rpc, consumed, rdone, stopVars>>

\* ------------------------------------------------------------ reporter
\* runReporter: one record received from the result channel.
ReporterTake ==
  /\ ~panicked
  /\ rpc = "running"
  /\ results # <<>>
  /\ consumed' = Append(consumed, Head(results))
  /\ results' = Tail(results)
  /\ UNCHANGED <<cfgVars, traceVars, clientWriters, pushed, total, reqVars, mpc, initCalls, initDone, alloc, resultsCap, stopCap,
                 resultsClosed, stopCh, panicked, runVars, workerVars, rpc, rdone,
                 summary, stopVars>>

\* runReporter: the channel is closed and drained; done is signalled.
ReporterDone ==
  /\ ~panicked
  /\ rpc = "running"
  /\ results = <<>>
  /\ resultsClosed
  /\ rpc' = "exited"
  /\ rdone' = TRUE
  /\ UNCHANGED <<cfgVars, traceVars, clientWriters, pushed, total, reqVars, mpc, initCalls, chanVars, panicked, runVars, workerVars,
                 consumed, summary, stopVars>>


\* ------------------------------------------------------------- workers
\* The goroutine of runWorkers starts runWorker: the throttle is set up,
\* with DisableRedirects the worker assigns client.CheckRedirect of the
\* client all workers share, and the for loop is reached with i = 0.
WorkerStart(g) ==
  /\ ~panicked
  /\ wpc[g] = "spawned"
  /\ wpc' = [wpc EXCEPT ![g] = "loop"]
  /\ wi' = [wi EXCEPT ![g] = 0]
  /\ clientWriters' = IF DisableRedirects THEN clientWriters \cup {g} ELSE clientWriters
  /\ UNCHANGED <<cfgVars, traceVars, pushed, total, reqVars, mpc, initCalls, chanVars, panicked, runVars, werr, wtook,
                 issued, lateIssued, lateChecks, reportVars, stopVars>>

\* Mutant of TokenReady: the stop check is skipped in the first iteration.
TokenReadySkipFirst(g) == alloc /\ stopCh > 0 /\ wi[g] > 0

\* select { case <-b.stopCh: ... default: ... }: the receive is taken when
\* a token is buffered, default otherwise.
TokenReady(g) == alloc /\ stopCh > 0

\* cloneRequest(b.Request, b.RequestBody): a copy of the struct (the URL
\* pointer with it), a new header map with copies of the values, and a
\* reader on the body string.
CloneRequest ==
  [host |-> tmpl.host, path |-> tmpl.path, header |-> tmpl.header,
   body |-> tmpl.body]

\* makeRequest is entered by worker g: the request is cloned and gets its
\* context; without RandMark c.Do(req) follows at once (primes wpc, issued,
\* lateIssued and the request variables).
EnterRequest(g) ==
  /\ wpc' = [wpc EXCEPT ![g] = IF RandMark THEN "markhost" ELSE "inflight"]
  /\ issued' = issued + 1
  /\ lateIssued' = [lateIssued EXCEPT ![g] = @ + (IF StopReturned THEN 1 ELSE 0)]
  /\ wreq' = [wreq EXCEPT ![g] = CloneRequest]
  /\ UNCHANGED <<tmpl, tagLog>>

\* runWorker returns and the goroutine calls wg.Done() (primes wpc, wg).
WorkerReturn(g) ==
  /\ wpc' = [wpc EXCEPT ![g] = "done"]
  /\ wg' = wg - 1

\* runWorker: the loop condition i < n and the stop check of one iteration.
WorkerLoop(g) ==
  /\ ~panicked
  /\ wpc[g] = "loop"
  /\ IF wi[g] < PerWorker
     THEN IF TokenReady(g)
          THEN /\ stopCh' = stopCh - 1
               /\ wtook' = [wtook EXCEPT ![g] = @ + 1]
               /\ WorkerReturn(g)
               /\ UNCHANGED <<issued, lateIssued, lateChecks, reqVars>>
          ELSE /\ lateChecks' = [lateChecks EXCEPT ![g] = @ + (IF StopReturned THEN 1 ELSE 0)]
               /\ IF QPS > 0
                  THEN /\ wpc' = [wpc EXCEPT ![g] = "throttle"]
                       /\ UNCHANGED <<issued, lateIssued, reqVars>>
                  ELSE EnterRequest(g)
               /\ UNCHANGED <<stopCh, wtook, wg>>
     ELSE /\ WorkerReturn(g)
          /\ UNCHANGED <<stopCh, wtook, issued, lateIssued, lateChecks, reqVars>>
  /\ UNCHANGED <<cfgVars, traceVars, clientWriters, pushed, total, mpc, initCalls, initDone, alloc, resultsCap, stopCap, results,
                 resultsClosed, panicked, runpc, gort, wi, werr, reportVars, stopVars>>

\* runWorker: <-throttle delivers a tick (never, on a nil channel), then
\* makeRequest is entered.
WorkerThrottle(g) ==
  /\ ~panicked
  /\ wpc[g] = "throttle"
  /\ ~ThrottleIsNil
  /\ EnterRequest(g)
  /\ UNCHANGED <<cfgVars, traceVars, clientWriters, pushed, total, mpc, initCalls, chanVars, panicked, runVars, wi, werr, wtook,
                 lateChecks, reportVars, stopVars>>

\* The URL host and path worker g's request reads: its own copy of the URL
\* when WithContext copied it, the URL of the template otherwise.
RequestHost(g) == IF ctxCopiesURL THEN wreq[g].host ELSE tmpl.host
RequestPath(g) == IF ctxCopiesURL THEN wreq[g].path ELSE tmpl.path

\* makeRequest with RandMark: req.URL.Host = strings.Replace(req.URL.Host,
\* "HEY", tag, -1). The write lands in the template's URL when the request
\* shares it.
MarkHost(g) ==
  /\ ~panicked
  /\ wpc[g] = "markhost"
  /\ LET t == Tag(g, wi[g])
         h == Replace(RequestHost(g), Marker, t)
     IN /\ tagLog' = tagLog \cup {[gort |-> g, n |-> wi[g], tag |-> t]}
        /\ wreq' = [wreq EXCEPT ![g].host = h]
        /\ tmpl' = IF ctxCopiesURL THEN tmpl ELSE [tmpl EXCEPT !.host = h]
  /\ wpc' = [wpc EXCEPT ![g] = "markpath"]
  /\ UNCHANGED <<cfgVars, traceVars, clientWriters, pushed, total, mpc, initCalls, chanVars, panicked, runVars, wi, werr, wtook,
                 issued, lateIssued, lateChecks, reportVars, stopVars>>

\* makeRequest with RandMark: the same for req.URL.Path, then for every
\* header value of the request and for b.RequestBody, which becomes the
\* body; then c.Do(req) sends the request as it is now.
MarkPath(g) ==
  /\ ~panicked
  /\ wpc[g] = "markpath"
  /\ LET t == Tag(g, wi[g])
         p == Replace(RequestPath(g), Marker, t)
     IN /\ wreq' = [wreq EXCEPT ![g] =
                     [host |-> RequestHost(g),
                      path |-> p,
                      header |-> Replace(wreq[g].header, Marker, t),
                      body |-> Replace(tmpl.body, Marker, t)]]
        /\ tmpl' = IF ctxCopiesURL THEN tmpl ELSE [tmpl EXCEPT !.path = p]
  /\ wpc' = [wpc EXCEPT ![g] = "inflight"]
  /\ UNCHANGED <<cfgVars, traceVars, clientWriters, pushed, total, tagLog, mpc, initCalls, chanVars, panicked, runVars, wi, werr,
                 wtook, issued, lateIssued, lateChecks, reportVars, stopVars>>

\* The requests of this run that c.Do has failed so far: the records sent
\* with an error and the failed requests whose record is about to be sent.
Failures ==
  Cardinality({j \in 1 .. Len(pushed) : pushed[j].err})
    + Cardinality({g \in Workers : wpc[g] = "push" /\ werr[g]})

\* makeRequest: c.Do(req) returns, with an error (for a worker of
\* FailingWorkers, at most MaxFailures times in a run) or a response.
WorkerResponse(g) ==
  /\ ~panicked
  /\ wpc[g] = "inflight"
  /\ \E e \in (IF g \in FailingWorkers /\ Failures < MaxFailures
                THEN BOOLEAN ELSE {FALSE}) :
       werr' = [werr EXCEPT ![g] = e]
  /\ wpc' = [wpc EXCEPT ![g] = "push"]
  /\ UNCHANGED <<cfgVars, traceVars, clientWriters, pushed, total, reqVars, mpc, initCalls, chanVars, panicked, runVars, wi, wtook,
                 issued, lateIssued, lateChecks, reportVars, stopVars>>

\* Mutant of ResultRecord: the iterations are numbered from the last to the
\* first.
ResultRecordReversed(g) == [gort |-> g, n |-> PerWorker - 1 - wi[g], err |-> werr[g]]

\* Mutant of ResultRecord: the err field is left out of the record.
ResultRecordNoErr(g) == [gort |-> g, n |-> wi[g], err |-> FALSE]

\* The record makeRequest builds: &result{err: err, ...}; gort and n name
\* the iteration the record belongs to.
ResultRecord(g) == [gort |-> g, n |-> wi[g], err |-> werr[g]]

\* b.results <- &result{...} can proceed: the buffer has room.
PushReady == Len(results) < resultsCap

\* makeRequest: the record is sent to b.results (a send on a closed channel
\* panics); makeRequest returns, its local err is gone, and the loop does
\* i++.
WorkerPush(g) ==
  /\ ~panicked
  /\ wpc[g] = "push"
  /\ IF resultsClosed
     THEN /\ panicked' = TRUE
          /\ UNCHANGED <<results, pushed, wpc, wi, werr>>
     ELSE /\ PushReady
          /\ results' = Append(results, ResultRecord(g))
          /\ pushed' = Append(pushed, ResultRecord(g))
          /\ wi' = [wi EXCEPT ![g] = @ + 1]
          /\ wpc' = [wpc EXCEPT ![g] = "loop"]
          /\ werr' = [werr EXCEPT ![g] = FALSE]
          /\ UNCHANGED panicked
  /\ UNCHANGED <<cfgVars, traceVars, clientWriters, total, reqVars, mpc, initCalls, initDone, alloc, resultsCap, stopCap,
                 resultsClosed, stopCh, runVars, wtook, issued, lateIssued,
                 lateChecks, reportVars, stopVars>>

\* ----------------------------------------------------------- Work.Stop
\* Mutant of TokensToSend: the loop starts at 1.
TokensToSendShort == C - 1

\* The tokens one Stop() sends: for i := 0; i < b.C; i++
TokensToSend == C

\* Mutant of SendReady: the send does not wait for room.
SendReadyAlways == TRUE

\* b.stopCh <- struct{}{} can proceed: the buffer has room.
SendReady == stopCh < stopCap

\* No worker has begun its first iteration.
NoneBegun == \A g \in Workers : ~Begun(g)

\* Stop() is called by goroutine k: the loop condition is evaluated once.
StopCall(k) ==
  /\ ~panicked
  /\ spc[k] = "idle"
  /\ ssent' = [ssent EXCEPT ![k] = 0]
  /\ IF 0 < TokensToSend
     THEN /\ spc' = [spc EXCEPT ![k] = "sending"]
          /\ UNCHANGED earlyStop
     ELSE /\ spc' = [spc EXCEPT ![k] = "returned"]
          /\ earlyStop' = (earlyStop \/ (alloc /\ NoneBegun))
  /\ UNCHANGED <<cfgVars, traceVars, clientWriters, pushed, total, reqVars, mpc, initCalls, chanVars, panicked, runVars, workerVars,
                 reportVars>>

\* Stop(): one send of the loop. A send on a nil channel blocks for ever;
\* a send on a full channel waits; after the last send Stop() returns.
StopSend(k) ==
  /\ ~panicked
  /\ spc[k] = "sending"
  /\ IF ~alloc
     THEN /\ spc' = [spc EXCEPT ![k] = "nilblocked"]
          /\ UNCHANGED <<stopCh, ssent, earlyStop>>
     ELSE /\ SendReady
          /\ stopCh' = stopCh + 1
          /\ ssent' = [ssent EXCEPT ![k] = @ + 1]
          /\ IF ssent[k] + 1 < TokensToSend
             THEN /\ UNCHANGED <<spc, earlyStop>>
             ELSE /\ spc' = [spc EXCEPT ![k] = "returned"]
                  /\ earlyStop' = (earlyStop \/ NoneBegun)
  /\ UNCHANGED <<cfgVars, traceVars, clientWriters, pushed, total, reqVars, mpc, initCalls, initDone, alloc, resultsCap, stopCap, results,
                 resultsClosed, panicked, runVars, workerVars, reportVars>>

\* ------------------------------------------------------ specifications
WorkNext ==
  \/ RunInit
  \/ RunReporter
  \/ RunTransport
  \/ RunSpawn
  \/ RunWait
  \/ FinishClose
  \/ FinishTotal
  \/ FinishWaitDone
  \/ FinishFinalize
  \/ ReporterTake
  \/ ReporterDone
  \/ \E g \in Workers : WorkerStart(g)
  \/ \E g \in Workers : WorkerLoop(g)
  \/ \E g \in Workers : WorkerThrottle(g)
  \/ \E g \in Workers : WorkerResponse(g)
  \/ \E g \in Workers : WorkerPush(g)
  \/ \E k \in Stoppers : StopCall(k)
  \/ \E k \in Stoppers : StopSend(k)

Next ==
  \/ InitCall
  \/ WorkNext

Spec == Init /\ [][Next]_vars

NextMain ==
  \/ MainValidate
  \/ MainInit
  \/ MainUserKill
  \/ MainTimer
  \/ MainRun
  \/ WorkNext

SpecMain == InitMain /\ [][NextMain]_vars

\* A client that calls Run() once on a Work with a request template, with or
\* without RandMark, on a build whose WithContext copies the URL or not; no
\* Stop(), no rate limit.
InitReq ==
  /\ C \in 1 .. MaxC
  /\ N \in (IF C = 1 THEN {LongRun} ELSE C .. MaxN)
  /\ QPS = 0
  /\ dur = FALSE
  /\ certFails = FALSE
  /\ DisableRedirects \in BOOLEAN
  /\ RandMark \in BOOLEAN
  /\ ctxCopiesURL \in BOOLEAN
  /\ tmpl0 \in Templates
  /\ tmpl = tmpl0
  /\ wreq = [g \in Workers |-> NoRequest]
  /\ tagLog = {}
  /\ pushed = <<>>
  /\ TraceInit
  /\ clientWriters = {}
  /\ total = "unset"
  /\ mpc = "lib"
  /\ initDone = FALSE
  /\ initCalls = 0
  /\ alloc = FALSE
  /\ resultsCap = 0
  /\ stopCap = 0
  /\ results = <<>>
  /\ resultsClosed = FALSE
  /\ stopCh = 0
  /\ panicked = FALSE
  /\ runpc = "idle"
  /\ gort = 0
  /\ wg = 0
  /\ wpc = [g \in Workers |-> "none"]
  /\ wi = [g \in Workers |-> 0]
  /\ werr = [g \in Workers |-> FALSE]
  /\ wtook = [g \in Workers |-> 0]
  /\ issued = 0
  /\ lateIssued = [g \in Workers |-> 0]
  /\ lateChecks = [g \in Workers |-> 0]
  /\ earlyStop = FALSE
  /\ rpc = "none"
  /\ consumed = <<>>
  /\ rdone = FALSE
  /\ summary = FALSE
  /\ spc = [k \in Stoppers |-> "off"]
  /\ ssent = [k \in Stoppers |-> 0]

NextReq ==
  \/ RunInit
  \/ RunReporter
  \/ RunTransport
  \/ RunSpawn
  \/ RunWait
  \/ FinishClose
  \/ FinishTotal
  \/ FinishWaitDone
  \/ FinishFinalize
  \/ ReporterTake
  \/ ReporterDone
  \/ \E g \in Workers : WorkerStart(g)
  \/ \E g \in Workers : WorkerLoop(g)
  \/ \E g \in Workers : MarkHost(g)
  \/ \E g \in Workers : MarkPath(g)
  \/ \E g \in Workers : WorkerResponse(g)
  \/ \E g \in Workers : WorkerPush(g)

SpecReq == InitReq /\ [][NextReq]_vars

\* ------------------------------------------- one traced makeRequest call
\* Everything but the traced call.
workVars == <<cfgVars, reqVars, pushed, total, clientWriters, mpc, initCalls, chanVars,
              panicked, runVars, workerVars, reportVars, stopVars>>

\* now(): the time since the clock was started; it never goes back.
now == clk

\* Time passes.
TraceTick ==
  /\ tpc # "recorded"
  /\ clk < MaxClock
  /\ clk' = clk + 1
  /\ UNCHANGED <<tpc, ts, tstart, tdur, terr, trec, workVars>>

\* makeRequest: s := now(); the request is built and c.Do(req) is called.
MakeRequestStart ==
  /\ tpc = "idle"
  /\ ts' = now
  /\ tpc' = "getconn"
  /\ UNCHANGED <<clk, tstart, tdur, terr, trec, workVars>>

\* trace.GetConn: connStart = now()
TraceGetConn ==
  /\ tpc = "getconn"
  /\ tstart' = [tstart EXCEPT !.conn = now]
  /\ tpc' = "conn"
  /\ UNCHANGED <<clk, ts, tdur, terr, trec, workVars>>

\* trace.DNSStart: dnsStart = now()
TraceDNSStart ==
  /\ tpc = "conn"
  /\ tstart' = [tstart EXCEPT !.dns = now]
  /\ tpc' = "dns"
  /\ UNCHANGED <<clk, ts, tdur, terr, trec, workVars>>

\* trace.DNSDone: dnsDuration = now() - dnsStart
TraceDNSDone ==
  /\ tpc = "dns"
  /\ tdur' = [tdur EXCEPT !.dns = now - tstart.dns]
  /\ tpc' = "dialed"
  /\ UNCHANGED <<clk, ts, tstart, terr, trec, workVars>>

\* trace.GotConn: connDuration = now() - connStart unless the connection is
\* a reused one (no lookup and no dial went before); reqStart = now()
TraceGotConn ==
  /\ tpc \in {"conn", "dialed"}
  /\ LET reused == (tpc = "conn")
     IN tdur' = IF reused THEN tdur ELSE [tdur EXCEPT !.conn = now - tstart.conn]
  /\ tstart' = [tstart EXCEPT !.req = now]
  /\ tpc' = "write"
  /\ UNCHANGED <<clk, ts, terr, trec, workVars>>

\* trace.WroteRequest: reqDuration = now() - reqStart; delayStart = now()
TraceWroteRequest ==
  /\ tpc = "write"
  /\ tdur' = [tdur EXCEPT !.req = now - tstart.req]
  /\ tstart' = [tstart EXCEPT !.delay = now]
  /\ tpc' = "wait"
  /\ UNCHANGED <<clk, ts, terr, trec, workVars>>

\* trace.GotFirstResponseByte: delayDuration = now() - delayStart;
\* resStart = now()
TraceFirstByte ==
  /\ tpc = "wait"
  /\ tdur' = [tdur EXCEPT !.delay = now - tstart.delay]
  /\ tstart' = [tstart EXCEPT !.res = now]
  /\ tpc' = "read"
  /\ UNCHANGED <<clk, ts, terr, trec, workVars>>

\* c.Do(req) returns: with a response once the first byte has come, with an
\* error at any point of the round trip; the body of a response is read.
TraceDoReturns ==
  /\ tpc \in {"getconn", "conn", "dns", "dialed", "write", "wait", "read"}
  /\ \E e \in (IF tpc = "read" THEN BOOLEAN ELSE {TRUE}) : terr' = e
  /\ tpc' = "returned"
  /\ UNCHANGED <<clk, ts, tstart, tdur, trec, workVars>>

\* makeRequest: t := now(); resDuration = t - resStart; finish := t - s;
\* the result is sent.
TraceRecord ==
  /\ tpc = "returned"
  /\ LET t == now
         resDuration == t - tstart.res
         finish == t - ts
     IN trec' = [sent |-> TRUE, err |-> terr, offset |-> ts, duration |-> finish,
                 connDuration |-> tdur.conn, dnsDuration |-> tdur.dns,
                 reqDuration |-> tdur.req, resDuration |-> resDuration,
                 delayDuration |-> tdur.delay]
  /\ tpc' = "recorded"
  /\ UNCHANGED <<clk, ts, tstart, tdur, terr, workVars>>

\* One makeRequest call on a Work of one worker and one request.
InitTrace == Init /\ C = 1 /\ N = 1 /\ QPS = 0 /\ ~certFails

NextTrace ==
  \/ TraceTick
  \/ MakeRequestStart
  \/ TraceGetConn
  \/ TraceDNSStart
  \/ TraceDNSDone
  \/ TraceGotConn
  \/ TraceWroteRequest
  \/ TraceFirstByte
  \/ TraceDoReturns
  \/ TraceRecord

SpecTrace == InitTrace /\ [][NextTrace]_vars


\* -------------------------------------------------------------- claims
\* No Stop() has been called.
NoStopCalled == \A k \in Stoppers : spc[k] \in {"idle", "off"}

\* C1: in fixed-count mode with no Stop() call, a completed Run() has
\* started exactly C workers, each worker has performed exactly floor(N/C)
\* iterations, and exactly C * floor(N/C) requests were issued, so the
\* N mod C remainder is never issued.
C1_FixedCountTotal ==
  (runpc = "returned" /\ ~dur /\ C >= 1 /\ NoStopCalled) =>
    /\ Cardinality({g \in Workers : wpc[g] # "none"}) = C
    /\ \A g \in Workers : g < C => (wpc[g] = "done" /\ wi[g] = N \div C)
    /\ issued = C * (N \div C)

\* C1 witness: a completed run with N = 3, C = 2 that issued 2 requests.
C1_Witness ==
  /\ runpc = "returned"
  /\ NoStopCalled
  /\ N = 3
  /\ C = 2
  /\ issued = 2

\* C2: if a Stop() completes on an initialized Work before any worker has
\* begun its first iteration, the run issues no request: every worker that
\* reaches a stop check takes a token at its first check and returns
\* without entering makeRequest.
C2_EarlyStopIssuesNothing ==
  earlyStop =>
    /\ issued = 0
    /\ \A g \in Workers :
         (wpc[g] = "done" /\ C >= 1 /\ N \div C > 0) => (wtook[g] = 1 /\ wi[g] = 0)

\* C2 witness: Stop() completed before the workers began, Run() returned,
\* and both workers of a run with N >= C = 2 took a token.
C2_Witness ==
  /\ earlyStop
  /\ runpc = "returned"
  /\ C = 2
  /\ N >= 2
  /\ issued = 0
  /\ \A g \in Workers : wtook[g] = 1


\* Worker g waits to send its record and the result channel is full.
BlockedOnFull(g) == wpc[g] = "push" /\ alloc /\ Len(results) >= resultsCap

\* C3: the result channel never holds more records than
\* min(C * ResultsPerWorker, maxResult), and a worker whose send finds the
\* channel full stays at the send, with every buffered record kept, until
\* the reporter has taken a record.
C3_StreamBounded ==
  /\ [](alloc => Len(results) <= min(C * ResultsPerWorker, maxResult))
  /\ [][\A g \in Workers :
          BlockedOnFull(g) =>
            /\ wpc'[g] = "push"
            /\ wi'[g] = wi[g]
            /\ results' = results \/ (results' = Tail(results) /\
                                      consumed' = Append(consumed, Head(results)))]_vars

\* C3 witness: two workers, the channel at its capacity min(2, 1) = 1, and a
\* worker waiting to send.
C3_Witness ==
  /\ C = 2
  /\ Len(results) = 1
  /\ \E g \in Workers : BlockedOnFull(g)

\* The records the reporter received are exactly one per iteration that
\* entered makeRequest: (g, i) for every i below worker g's loop variable.
OneRecordEach ==
  /\ Len(consumed) = issued
  /\ \A g \in Workers : \A i \in 0 .. (wi[g] - 1) :
       Cardinality({j \in 1 .. Len(consumed) :
                      consumed[j].gort = g /\ consumed[j].n = i}) = 1

\* C4: when Run() returns, every request a worker issued has produced
\* exactly one record and the reporter has received it, also the requests
\* that were in flight when Stop() was called; no record is left in the
\* channel or in a worker.
C4_AllRecorded ==
  runpc = "returned" =>
    /\ OneRecordEach
    /\ results = <<>>
    /\ \A g \in Workers : wpc[g] \in {"none", "done"}

\* C4 witness: Run() returned after a Stop() that found a worker past its
\* stop check; that worker's request was issued after Stop() returned and
\* its record was received.
C4_Witness ==
  /\ runpc = "returned"
  /\ StopReturned
  /\ \E g \in Workers : lateIssued[g] = 1 /\ wtook[g] = 1
  /\ Len(consumed) = issued
  /\ issued >= 2

\* Stop() caller k is the only one that has called Stop().
OnlyCaller(k) == \A j \in Stoppers : j # k => spc[j] \in {"idle", "off"}

\* C5: the stop channel never holds more than C tokens and a worker takes
\* at most one token; a single Stop() call on an initialized Work is never
\* kept waiting at a send, sends exactly C tokens, and every token it sent
\* is in the channel or was taken by a worker.
C5_SingleStop ==
  /\ alloc => stopCh <= C
  /\ \A g \in Workers : wtook[g] <= 1
  /\ \A k \in Stoppers :
       (OnlyCaller(k) /\ alloc) =>
         /\ spc[k] = "sending" => stopCh < stopCap
         /\ spc[k] = "returned" => ssent[k] = C
         /\ spc[k] \in {"sending", "returned"} =>
              ssent[k] = stopCh + Cardinality({g \in Workers : wtook[g] = 1})

\* C5 witness: the only Stop() call returned having sent C = 2 tokens while
\* a worker had a request in flight; one token was taken.
C5_Witness ==
  /\ C = 2
  /\ spc["interrupt"] = "returned"
  /\ spc["timer"] = "idle"
  /\ ssent["interrupt"] = 2
  /\ \E g \in Workers : wtook[g] = 1
  /\ \E g \in Workers : wpc[g] = "inflight"

\* C6: once a Stop() call has returned, every stop check a worker performs
\* takes a token (no new iteration starts), and a worker issues at most one
\* request after the return: the one whose stop check had passed before.
C6_NoNewIteration ==
  \A g \in Workers :
    /\ lateChecks[g] = 0
    /\ lateIssued[g] <= 1
    /\ (StopReturned /\ wpc[g] = "done" /\ wi[g] < N \div C) => wtook[g] = 1

\* C6 witness: a worker that waited for its tick when Stop() returned
\* issued that one request, then took a token and returned before its
\* iterations were used up.
C6_Witness ==
  \E g \in Workers :
    /\ lateIssued[g] = 1
    /\ wpc[g] = "done"
    /\ wtook[g] = 1
    /\ wi[g] < N \div C


\* C7: in duration mode a worker stops only because Stop() was invoked:
\* every worker that has returned has taken a stop token, none has
\* returned because its loop variable reached the limit N/C.
C7_DurationOnlyStop ==
  (mpc = "running" /\ dur) =>
    \A g \in Workers : wpc[g] = "done" => wtook[g] = 1

\* Every worker runWorkers started has returned and Run is past wg.Wait().
NoWorkerRemains ==
  /\ runpc \in {"close", "total", "waitdone", "finalize", "returned"}
  /\ \A g \in Workers : wpc[g] \in {"none", "done"}

\* Stop() caller k waits at a send on the full stop channel and no worker
\* remains to take a token.
StopStuck(k) ==
  /\ spc[k] = "sending"
  /\ alloc
  /\ stopCh >= stopCap
  /\ NoWorkerRemains

\* C8: a Stop() caller that waits at a send on the full stop channel when
\* no worker remains waits for ever: it sends nothing more and never
\* returns. (The witness shows such a state is reached by a second Stop()
\* after a first one whose tokens were not all taken.)
C8_SecondStopBlocks ==
  [][\A k \in Stoppers :
       StopStuck(k) => (StopStuck(k)' /\ ssent'[k] = ssent[k])]_vars

\* C8 witness: the first Stop() returned, a worker had finished its
\* iterations without taking a token, and the second Stop() waits on the
\* full channel with no worker left.
C8_Witness ==
  /\ spc["interrupt"] = "returned"
  /\ StopStuck("timer")
  /\ ssent["timer"] < C
  /\ \E g \in Workers : wpc[g] = "done" /\ wtook[g] = 0

\* A step is a call of Init(): by the client, by requestFunc or inside Run().
InitStep ==
  \/ initCalls' = initCalls + 1
  \/ (mpc = "init" /\ mpc' = "userKill")
  \/ (runpc = "idle" /\ runpc' = "report")

\* C9: an Init() call made after the first one changes neither the result
\* channel nor the stop channel: the buffered records and tokens, the
\* capacities and the closed flag stay as they are.
C9_InitIdempotent ==
  [][(initDone /\ InitStep) =>
       UNCHANGED <<alloc, resultsCap, stopCap, results, resultsClosed, stopCh,
                   initDone, panicked>>]_vars

\* C9 witness: Init() was called by the client, a Stop() then buffered its
\* token, and the Init() inside Run() has just run, the token still there.
C9_Witness ==
  /\ initCalls = 1
  /\ runpc = "report"
  /\ initDone
  /\ stopCh = 1
  /\ C = 1

\* C10: a Work with C < 1 never gets past Init(): the reporter is never
\* started, no worker is started and finalize is never called.
C10_RejectsBadC ==
  C < 1 =>
    /\ rpc = "none"
    /\ \A g \in Workers : wpc[g] = "none"
    /\ ~summary


\* C11: a request that failed with a transport error is recorded like any
\* other: when the worker gets past its send, the record it appended
\* carries the error, the worker is back at its loop with i + 1 and nothing
\* has panicked, whatever err was; and a completed run without Stop() has
\* issued C * floor(N/C) requests however many of them failed.
C11_ErrorIsRecorded ==
  /\ [][\A g \in Workers :
          (wpc[g] = "push" /\ wpc'[g] # "push") =>
            /\ results' = Append(results, [gort |-> g, n |-> wi[g], err |-> werr[g]])
            /\ wpc'[g] = "loop"
            /\ wi'[g] = wi[g] + 1
            /\ ~panicked']_vars
  /\ []((runpc = "returned" /\ C >= 1 /\ NoStopCalled) =>
          /\ Len(consumed) = C * (N \div C)
          /\ issued = Len(consumed))

\* C11 witness: a completed run of one worker with N = 2 whose first request
\* failed and whose second request was issued and recorded all the same.
C11_Witness ==
  /\ runpc = "returned"
  /\ NoStopCalled
  /\ C = 1
  /\ N = 2
  /\ Len(consumed) = 2
  /\ consumed[1].err
  /\ consumed[1].n = 0
  /\ consumed[2].n = 1


\* C12: when the client certificate and key fail to load, the run goes on
\* without them: nothing panics, so runWorkers starts its workers and Run()
\* completes. (Stated for C >= 1, where Init() itself cannot panic.)
C12_CertFailureContinues ==
  (certFails /\ C >= 1) => ~panicked

\* C13: with RandMark the tags generated during one run are pairwise
\* distinct: two iterations with the same tag are the same iteration (same
\* worker index, same iteration count), and every tag is the one of its
\* iteration, with 0 <= gort < C and 0 <= n < N / C.
C13_TagsDistinct ==
  \A a, b \in tagLog :
    /\ a.gort \in 0 .. (C - 1)
    /\ a.n \in 0 .. (GoDiv(N, C) - 1)
    /\ (a.tag = b.tag) => (a.gort = b.gort /\ a.n = b.n)

\* Two workers have tagged an iteration with the same count.
C13_Witness ==
  /\ RandMark
  /\ \E a, b \in tagLog : a.gort # b.gort /\ a.n = b.n

\* The request iteration n of worker g is to send: the template before Run()
\* with every marker replaced by the tag of (g, n).
MarkedRequest(g, i) ==
  [host |-> Replace(tmpl0.host, Marker, Tag(g, i)),
   path |-> Replace(tmpl0.path, Marker, Tag(g, i)),
   header |-> Replace(tmpl0.header, Marker, Tag(g, i)),
   body |-> Replace(tmpl0.body, Marker, Tag(g, i))]

\* C14: with RandMark, the request an iteration (g, i) sends has every
\* marker in its URL host, URL path, header value and body replaced by the
\* tag of (g, i), whatever ran before or runs at the same time.
C14_SentRequestTagged ==
  \A g \in Workers :
    (RandMark /\ wpc[g] = "inflight") => (wreq[g] = MarkedRequest(g, wi[g]))

\* C15: the request template is never changed during a run: its URL host,
\* URL path, header and body are the ones it had before Run().
C15_TemplateUnchanged == tmpl = tmpl0

\* Run() is in Finish(), or has returned from it.
InFinish == runpc \in {"close", "total", "waitdone", "finalize", "returned"}

\* C16: the aggregator is started before any worker is started; Finish()
\* starts only after all C workers have returned; Run() returns only after
\* the aggregator has signalled completion and finalize has been called.
C16_RunOrder ==
  /\ (\E g \in Workers : wpc[g] # "none") => rpc # "none"
  /\ InFinish => (\A g \in Workers : wpc[g] = (IF g < C THEN "done" ELSE "none"))
  /\ (runpc = "returned") => (rpc = "exited" /\ summary)

\* Run() has returned after MaxC workers recorded at least one request each.
C16_Witness ==
  /\ runpc = "returned"
  /\ C = MaxC
  /\ \A g \in Workers : \E j \in 1 .. Len(consumed) : consumed[j].gort = g

\* C18: the result channel is closed only after every worker has returned:
\* while it is closed no worker is in its loop, in a request or about to
\* push, so no record is ever sent on the closed channel, whatever Stop()
\* callers (interrupt, timer) do.
C18_NoPushAfterClose ==
  resultsClosed =>
    \A g \in Workers : wpc[g] = (IF g < C THEN "done" ELSE "none")

\* The channel is closed after a Stop() caller made a worker return early
\* while another worker had recorded a request.
C18_Witness ==
  /\ resultsClosed
  /\ \E k \in Stoppers : ssent[k] > 0
  /\ \E g \in Workers : wtook[g] > 0
  /\ consumed # <<>>

C19_TotalAfterDrain == (total # "unset") => (total = "drained")

\* C19, amended: Finish() closes the result channel, then computes the
\* elapsed time, then waits for the aggregator to complete, then finalizes.
\* The elapsed time is computed once the channel is closed and before the
\* wait, finalize runs only after the aggregator has completed, and the
\* summary exists only when Run() has returned.
C19_FinishOrder ==
  /\ (total # "unset") <=> (runpc \in {"waitdone", "finalize", "returned"})
  /\ (total # "unset") => resultsClosed
  /\ (runpc \in {"finalize", "returned"}) => (rpc = "exited")
  /\ summary <=> (runpc = "returned")

\* Run() has returned with an elapsed time that was computed while the
\* aggregator was still draining.
C19_Witness ==
  /\ runpc = "returned"
  /\ summary
  /\ total = "draining"
  /\ consumed # <<>>

\* A step of Run(): of its own goroutine, of the aggregator or of a worker.
RunSteps ==
  \/ RunInit
  \/ RunReporter
  \/ RunTransport
  \/ RunSpawn
  \/ RunWait
  \/ FinishClose
  \/ FinishTotal
  \/ FinishWaitDone
  \/ FinishFinalize
  \/ ReporterTake
  \/ ReporterDone
  \/ \E g \in Workers : WorkerStart(g)
  \/ \E g \in Workers : WorkerLoop(g)
  \/ \E g \in Workers : WorkerThrottle(g)
  \/ \E g \in Workers : WorkerResponse(g)
  \/ \E g \in Workers : WorkerPush(g)

\* Run() has been called and has neither returned nor panicked.
Running == runpc \notin {"off", "idle", "returned"} /\ ~panicked

\* C20: in fixed-count mode Run() eventually returns, with or without
\* Stop() calls and with more records than the result channel holds: as
\* long as Run() has not returned, its goroutine, the aggregator or a worker
\* can take a step (requests complete, the aggregator keeps receiving), so
\* workers, aggregator and Finish never block each other for ever.
C20_RunNeverStuck ==
  (Running /\ C >= 1) => ENABLED RunSteps

\* C21: no worker writes to the shared HTTP client or transport, whatever
\* the redirect toggle is, so no two workers write the same shared field.
C21_NoWorkerWritesClient == clientWriters = {}

\* The five phase durations of a result.
PhaseDurations(r) ==
  {r.dnsDuration, r.connDuration, r.reqDuration, r.delayDuration, r.resDuration}

\* C22: in every result each of the five phase durations (DNS, connection
\* setup, request write, server delay, response read) is at least 0 and at
\* most the total duration of the result, for a successful request and for
\* one that failed before the first response byte.
C22_PhasesWithinTotal ==
  trec.sent => (\A d \in PhaseDurations(trec) : 0 <= d /\ d <= trec.duration)

\* Every worker of the run has been started and none of them will receive
\* from the stop channel again: each has returned or waits on a nil
\* throttle channel.
NoTakerLeft ==
  \A g \in Workers :
    (g < C) => \/ wpc[g] = "done"
               \/ (wpc[g] = "throttle" /\ ThrottleIsNil)

\* Stop() caller k waits at a send on the full stop channel that no worker
\* will receive from: it never returns.
StopBlockedForEver(k) ==
  /\ ~panicked
  /\ spc[k] = "sending"
  /\ alloc
  /\ stopCh >= stopCap
  /\ NoTakerLeft

\* C23: in the command (Init, the interrupt handler, the duration timer,
\* Run) every Stop() call returns, whatever the interleaving of interrupt,
\* timer and workers: no Stop() caller is ever blocked for ever.
C23_StopAlwaysReturns ==
  \A k \in Stoppers : ~StopBlockedForEver(k)

====
